---- MODULE Spec2Model ----
(***************************************************************************)
(* puushy (server.js): an ephemeral single-node file store over HTTP.      *)
(*                                                                         *)
(* The model follows the hand-rolled streaming upload handler and the      *)
(* metadata / download / expiry code of server.js.  Node runs every        *)
(* callback to completion on one thread, so one callback (a route handler, *)
(* a 'data' / 'end' / 'error' listener, the interval callback) is one      *)
(* action; what Node performs asynchronously (opening, flushing and        *)
(* closing an fs.WriteStream, streaming a file to a client) is a separate  *)
(* action that may interleave with the callbacks.                          *)
(*                                                                         *)
(* Bytes.  A request body is a sequence of symbols:                        *)
(*   "fa"  the bytes  --X CRLF Content-Disposition: ...; filename="a.txt"  *)
(*   "f0"  the same line without a filename attribute                      *)
(*   "c"   the bytes  Content-Type: text/plain                             *)
(*   "n"   CRLF                                                            *)
(*   "-"   a dash, "X" the boundary token, "a" a payload byte              *)
(*   "e"   the bytes  -- CRLF  that follow the closing marker              *)
(* "fa", "f0", "c" and "e" are only ever read through the accumulated      *)
(* header buffer or not at all, so a chunk border inside one of them       *)
(* behaves as a border before it.                                          *)
(***************************************************************************)
EXTENDS Integers, Sequences, FiniteSets, TLC

\* ---------------------------------------------------------------- bounds
MaxUploads == 1
MaxBody == 1
MaxTicks == 2
MaxDownloads == 2
MaxStreams == 2

\* ------------------------------------------------------------- constants
FILE_EXPIRY_MS == 60 * 60 * 1000

\* upload requests; request u is given file id u (shortid.generate() never
\* repeats an id).  Id 0 is a file stored by an earlier run of the process.
Slots == 1 .. MaxUploads
Ids == 0 .. MaxUploads
BodyBytes == {"a", "-"}
NoName == "<none>"

VARIABLES
    metadataFile,   \* data/metadata.json: the sequence  files  of records
    uploadsDir,     \* uploads/: per file id, whether the file is linked and its bytes
    now,            \* Date.now()
    ticks,          \* number of clock advances so far
    req,            \* per upload request: the closure state of app.post('/upload')
    sending,        \* per file id, the number of res.download streams in flight
    last,           \* the latest response / callback outcome
    alive,          \* FALSE once an uncaught exception has ended the process
    served          \* per file id, the number of downloads answered 200 so far

vars == <<metadataFile, uploadsDir, now, ticks, req, sending, last, alive, served>>

\* ---------------------------------------------------------- byte helpers
RECURSIVE SeqsUpTo(_, _)
SeqsUpTo(S, n) ==
    IF n = 0 THEN {<< >>}
    ELSE LET shorter == SeqsUpTo(S, n - 1)
         IN  shorter \cup {Append(s, b) : s \in {t \in shorter : Len(t) = n - 1}, b \in S}

\* Buffer.prototype.indexOf(pattern): zero-based index of the first occurrence, or -1
IndexOf(buf, pat) ==
    LET hits == {i \in 0 .. (Len(buf) - Len(pat)) :
                    \A j \in 1 .. Len(pat) : buf[i + j] = pat[j]}
    IN  IF hits = {} THEN -1
        ELSE CHOOSE i \in hits : \A k \in hits : i <= k

\* Buffer.prototype.slice(from) and slice(0, to), zero-based
SliceFrom(buf, from) == SubSeq(buf, from + 1, Len(buf))
SliceTo(buf, to) == SubSeq(buf, 1, to)

CRLF == <<"n">>
HeaderEnd == <<"n", "n">>
boundary == <<"X">>
Marker == <<"-", "-">> \o boundary

\* headerStr.match(/filename="([^"]+)"/): the captured name, or NoName
FilenameMatch(buf) ==
    IF \E i \in 1 .. Len(buf) : buf[i] = "fa" THEN "a.txt" ELSE NoName

\* path.extname(filename)
ExtName(name) == IF name = "a.txt" THEN ".txt" ELSE ""

\* ------------------------------------------------------- request bodies
\* multipart/form-data with a single part: delimiter line and part headers,
\* an empty line, the payload, CRLF, the closing marker and its tail
Multipart(disp, body) ==
    <<disp>> \o CRLF \o <<"c">> \o CRLF \o CRLF \o body \o CRLF \o Marker \o <<"e">>

\* payloads never contain the delimiter (RFC 2046)
Bodies == {b \in SeqsUpTo(BodyBytes, MaxBody) : IndexOf(CRLF \o b, Marker) = -1}

\* ---------------------------------------------------------------- state
NoStream == [created |-> FALSE, opened |-> FALSE, pending |-> << >>,
             ended |-> FALSE, closed |-> FALSE]

\* st: idle (no request yet), open (listeners attached), ended, errored,
\* rejected (answered 400 before any listener was attached).
\* writeStream is the handler's variable (TRUE: holds the stream, FALSE: null);
\* ws is the fs.WriteStream object itself, which lives on after the variable
\* is cleared.  sent and body record what the client sent, responses what it
\* was answered, registered whether saveMetadata stored this request's record,
\* completeSize the value of receivedBytes logged by 'File complete, size:'.
IdleReq == [st |-> "idle", rest |-> << >>, sent |-> "none", body |-> << >>,
            filename |-> "file", writeStream |-> FALSE, fileStart |-> FALSE,
            receivedBytes |-> 0, headerBuffer |-> << >>, ws |-> NoStream,
            responses |-> << >>, registered |-> FALSE, completeSize |-> 0]

NoOp == [op |-> "none", id |-> 0, status |-> 0, body |-> << >>]

NoFile == [exists |-> FALSE, data |-> << >>]

\* the start-up code creates uploads/ and metadata.json ({ files: [] }) when
\* they are missing
InitFresh ==
    /\ metadataFile = << >>
    /\ uploadsDir = [i \in Ids |-> NoFile]
    /\ now = 0
    /\ ticks = 0
    /\ req = [u \in Slots |-> IdleReq]
    /\ sending = [i \in Ids |-> 0]
    /\ last = NoOp
    /\ alive = TRUE
    /\ served = [i \in Ids |-> 0]

\* what an earlier run left behind when it stored "a.txt" at time 0
OldRecord == [id |-> 0, originalName |-> "a.txt", filename |-> <<0, ".txt">>,
              downloads |-> 0, createdAt |-> 0]
OldFile == [exists |-> TRUE, data |-> <<"a">>]

\* ... and keeps them when they exist
InitRestart ==
    /\ metadataFile = <<OldRecord>>
    /\ uploadsDir = [i \in Ids |-> IF i = 0 THEN OldFile ELSE NoFile]
    /\ now = 0
    /\ ticks = 0
    /\ req = [u \in Slots |-> IdleReq]
    /\ sending = [i \in Ids |-> 0]
    /\ last = NoOp
    /\ alive = TRUE
    /\ served = [i \in Ids |-> 0]

Init == InitFresh \/ InitRestart

\* ------------------------------------------------------- Metadata Store
loadMetadata == metadataFile

\* fs.writeFileSync either rewrites the whole document or throws
saveMetadata(data, ok) == IF ok THEN data ELSE metadataFile

IdsOf(files) == {files[i].id : i \in 1 .. Len(files)}

\* metadata.files.findIndex(f => f.id === id), one-based; 0 when absent
FindIndex(files, id) ==
    LET hits == {i \in 1 .. Len(files) : files[i].id = id}
    IN  IF hits = {} THEN 0 ELSE CHOOSE i \in hits : \A k \in hits : i <= k

\* splice(fileIndex) without the count: drops the rest of the list as well
SpliceToEnd(files, idx) == SubSeq(files, 1, idx - 1)

\* metadata.files.splice(fileIndex, 1)
Splice(files, idx) == SubSeq(files, 1, idx - 1) \o SubSeq(files, idx + 1, Len(files))

\* ------------------------------------------------- fs.WriteStream object
\* writeStream.write(bytes): buffered until the stream flushes
WsWrite(ws, bytes) == [ws EXCEPT !.pending = @ \o bytes]

\* writeStream.end(): no more writes; the file closes after the last flush
WsEnd(ws) == [ws EXCEPT !.ended = TRUE]

\* fs.createWriteStream(filepath): the open itself happens later
CreateWriteStream == [NoStream EXCEPT !.created = TRUE]

\* the asynchronous open(filepath, 'w'): creates or truncates the file
FsOpen(u) ==
    /\ alive
    /\ req[u].ws.created /\ ~req[u].ws.opened
    /\ req' = [req EXCEPT ![u].ws.opened = TRUE]
    /\ uploadsDir' = [uploadsDir EXCEPT ![u] = [exists |-> TRUE, data |-> << >>]]
    /\ last' = NoOp
    /\ UNCHANGED <<metadataFile, now, ticks, sending, alive, served>>

\* the asynchronous flush of the buffered writes; bytes written through a
\* descriptor whose file was unlinked meanwhile are not visible under the name
FsWrite(u) ==
    /\ alive
    /\ req[u].ws.opened /\ ~req[u].ws.closed /\ req[u].ws.pending # << >>
    /\ req' = [req EXCEPT ![u].ws.pending = << >>]
    /\ uploadsDir' = [uploadsDir EXCEPT ![u] =
            IF @.exists THEN [@ EXCEPT !.data = @ \o req[u].ws.pending] ELSE @]
    /\ last' = NoOp
    /\ UNCHANGED <<metadataFile, now, ticks, sending, alive, served>>

\* the asynchronous close once end() was called and everything is flushed
FsClose(u) ==
    /\ alive
    /\ req[u].ws.opened /\ req[u].ws.ended /\ ~req[u].ws.closed
    /\ req[u].ws.pending = << >>
    /\ req' = [req EXCEPT ![u].ws.closed = TRUE]
    /\ last' = NoOp
    /\ UNCHANGED <<metadataFile, uploadsDir, now, ticks, sending, alive, served>>

\* --------------------------------------------------- POST /upload handler
\* a registration that counts the upload itself as a download
NewRecordCounted(u, name, t) ==
    [id |-> u, originalName |-> name, filename |-> <<u, ExtName(name)>>,
     downloads |-> 1, createdAt |-> t]

\* metadata.files.push({ id, originalName, filename, downloads: 0, createdAt })
NewRecord(u, name, t) ==
    [id |-> u, originalName |-> name, filename |-> <<u, ExtName(name)>>,
     downloads |-> 0, createdAt |-> t]

UploadOk(u, name) == [status |-> 200, id |-> u, filename |-> name, link |-> <<"/f/", u>>]

\* a catch block that reports the failed save to the client
UploadSaveErrorAs500(u, name) == [status |-> 500, id |-> 0, filename |-> NoName, link |-> << >>]

\* the res.json of the catch block ('Save error:')
UploadSaveError(u, name) == [status |-> 200, id |-> u, filename |-> name, link |-> <<"/f/", u>>]
UploadRejected == [status |-> 400, id |-> 0, filename |-> NoName, link |-> << >>]

\* a handler that creates the write stream before it looks at the boundary
UploadStartStreamFirst(u, kind, body) ==
    /\ alive
    /\ req[u].st = "idle"
    /\ req' = [req EXCEPT ![u] =
            IF kind = "noboundary"
            THEN [@ EXCEPT !.st = "rejected", !.sent = kind, !.ws = CreateWriteStream,
                           !.responses = <<UploadRejected>>]
            ELSE [@ EXCEPT !.st = "open", !.sent = kind, !.body = body,
                           !.rest = Multipart(IF kind = "file" THEN "fa" ELSE "f0", body)]]
    /\ last' = NoOp
    /\ UNCHANGED <<metadataFile, uploadsDir, now, ticks, sending, alive, served>>

\* the route handler up to the point where the listeners are attached:
\* a content type without boundary= is answered 400 at once
UploadStart(u, kind, body) ==
    /\ alive
    /\ req[u].st = "idle"
    /\ \A v \in Slots : v < u => req[v].st # "idle"
    /\ req' = [req EXCEPT ![u] =
            IF kind = "noboundary"
            THEN [@ EXCEPT !.st = "rejected", !.sent = kind,
                           !.responses = <<UploadRejected>>]
            ELSE [@ EXCEPT !.st = "open", !.sent = kind, !.body = body,
                           !.rest = Multipart(IF kind = "file" THEN "fa" ELSE "f0", body)]]
    /\ last' = NoOp
    /\ UNCHANGED <<metadataFile, uploadsDir, now, ticks, sending, alive, served>>

\* req.on('data') while fileStart is false: accumulate, look for the file name
DataHeader(r, chunk) ==
    LET hb == r.headerBuffer \o chunk
        name == FilenameMatch(hb)
        headerEndIndex == IndexOf(hb, HeaderEnd)
        remaining == SliceFrom(hb, headerEndIndex + Len(HeaderEnd))
    IN  IF name = NoName
        THEN [r EXCEPT !.headerBuffer = hb]
        ELSE [r EXCEPT !.headerBuffer = hb,
                       !.filename = name,
                       !.writeStream = TRUE,
                       !.fileStart = TRUE,
                       !.ws = IF headerEndIndex # -1 /\ Len(remaining) > 0
                              THEN WsWrite(CreateWriteStream, remaining)
                              ELSE CreateWriteStream]

\* chunk.indexOf(Buffer.from('--' + boundary)): the scan sees one chunk only
BoundaryIndex(chunk) == IndexOf(chunk, Marker)

\* req.on('data') while a write stream is held, closing marker in the chunk
DataBoundary(r, u, chunk, ok) ==
    [r EXCEPT !.ws = WsEnd(WsWrite(@, SliceTo(chunk, BoundaryIndex(chunk)))),
              !.writeStream = FALSE,
              !.completeSize = r.receivedBytes,
              !.registered = ok,
              !.responses = Append(@, IF ok THEN UploadOk(u, r.filename)
                                           ELSE UploadSaveError(u, r.filename))]

\* a registration that starts from an empty document instead of the loaded one
RegisterOverEmpty(u, name, ok) == saveMetadata(<<NewRecord(u, name, now)>>, ok)

\* the registration inside the try block: load, push, save
Register(u, name, ok) ==
    saveMetadata(Append(loadMetadata, NewRecord(u, name, now)), ok)

\* req.on('data', chunk) for the next k bytes of the body
ReqData(u, k, ok) ==
    /\ alive
    /\ req[u].st = "open"
    /\ k \in 1 .. Len(req[u].rest)
    /\ LET r == [req[u] EXCEPT !.rest = SliceFrom(@, k), !.receivedBytes = @ + k]
           chunk == SliceTo(req[u].rest, k)
       IN  IF ~r.fileStart
           THEN /\ ok
                /\ req' = [req EXCEPT ![u] = DataHeader(r, chunk)]
                /\ UNCHANGED metadataFile
           ELSE IF r.writeStream
           THEN IF BoundaryIndex(chunk) # -1
                THEN /\ req' = [req EXCEPT ![u] = DataBoundary(r, u, chunk, ok)]
                     /\ metadataFile' = Register(u, r.filename, ok)
                ELSE /\ ok
                     /\ req' = [req EXCEPT ![u] = [r EXCEPT !.ws = WsWrite(@, chunk)]]
                     /\ UNCHANGED metadataFile
           ELSE /\ ok
                /\ req' = [req EXCEPT ![u] = r]
                /\ UNCHANGED metadataFile
    /\ last' = NoOp
    /\ UNCHANGED <<uploadsDir, now, ticks, sending, alive, served>>

\* an 'end' listener that answers the request whatever happened before
ReqEndAnswers(u) ==
    /\ alive
    /\ req[u].st = "open" /\ req[u].rest = << >>
    /\ req' = [req EXCEPT ![u].st = "ended",
                          ![u].ws = IF req[u].writeStream /\ ~@.ended THEN WsEnd(@) ELSE @,
                          ![u].responses = Append(@, UploadRejected)]
    /\ last' = NoOp
    /\ UNCHANGED <<metadataFile, uploadsDir, now, ticks, sending, alive, served>>

\* req.on('end'): all bytes were delivered
ReqEnd(u) ==
    /\ alive
    /\ req[u].st = "open" /\ req[u].rest = << >>
    /\ req' = [req EXCEPT ![u].st = "ended",
                          ![u].ws = IF req[u].writeStream /\ ~@.ended THEN WsEnd(@) ELSE @]
    /\ last' = NoOp
    /\ UNCHANGED <<metadataFile, uploadsDir, now, ticks, sending, alive, served>>

\* req.on('error'): the client went away before the body was complete
ReqError(u) ==
    /\ alive
    /\ req[u].st = "open" /\ req[u].rest # << >>
    /\ req' = [req EXCEPT ![u].st = "errored",
                          ![u].ws = IF req[u].writeStream THEN WsEnd(@) ELSE @]
    /\ last' = NoOp
    /\ UNCHANGED <<metadataFile, uploadsDir, now, ticks, sending, alive, served>>

\* -------------------------------------------------- Retrieval Service
FileExists(files, idx) == uploadsDir[files[idx].filename[1]].exists

InFlight == LET RECURSIVE Sum(_)
                Sum(i) == IF i < 0 THEN 0 ELSE sending[i] + Sum(i - 1)
            IN  Sum(MaxUploads)

\* a counter written from a value read before another request's increment
IncrementedFromStale(file) == [file EXCEPT !.downloads = 1]

\* the record with downloads += 1
Incremented(file) == [file EXCEPT !.downloads = @ + 1]

\* GET /api/download/:id up to res.download(); a throw of saveMetadata
\* reaches the framework's error handler, which answers 500
Download(id, ok) ==
    /\ alive
    /\ LET metadata == loadMetadata
           fileIndex == FindIndex(metadata, id)
       IN  IF fileIndex = 0
           THEN /\ ok
                /\ last' = [op |-> "download", id |-> id, status |-> 404, body |-> << >>]
                /\ UNCHANGED <<metadataFile, sending, served>>
           ELSE IF ~FileExists(metadata, fileIndex)
           THEN /\ metadataFile' = saveMetadata(Splice(metadata, fileIndex), ok)
                /\ last' = [op |-> "download", id |-> id,
                            status |-> IF ok THEN 404 ELSE 500, body |-> << >>]
                /\ UNCHANGED <<sending, served>>
           ELSE /\ metadata[fileIndex].downloads < MaxDownloads
                /\ InFlight < MaxStreams
                /\ metadataFile' = saveMetadata(
                        [metadata EXCEPT ![fileIndex] = Incremented(@)], ok)
                /\ last' = [op |-> "download", id |-> id,
                            status |-> IF ok THEN 200 ELSE 500, body |-> << >>]
                /\ sending' = IF ok THEN [sending EXCEPT ![id] = @ + 1] ELSE sending
                /\ served' = IF ok THEN [served EXCEPT ![id] = @ + 1] ELSE served
    /\ UNCHANGED <<uploadsDir, now, ticks, req, alive>>

\* res.download(filePath, originalName): the file is read and sent after the
\* handler has returned; a file that is gone by then ends the request 404
SendFile(id) ==
    /\ alive
    /\ sending[id] > 0
    /\ sending' = [sending EXCEPT ![id] = @ - 1]
    /\ last' = IF uploadsDir[id].exists
               THEN [op |-> "sendFile", id |-> id, status |-> 200,
                     body |-> uploadsDir[id].data]
               ELSE [op |-> "sendFile", id |-> id, status |-> 404, body |-> << >>]
    /\ UNCHANGED <<metadataFile, uploadsDir, now, ticks, req, alive, served>>

\* GET /api/info/:id
Info(id) ==
    /\ alive
    /\ LET metadata == loadMetadata
           idx == FindIndex(metadata, id)
       IN  last' = IF idx = 0
                   THEN [op |-> "info", id |-> id, status |-> 404, body |-> << >>]
                   ELSE [op |-> "info", id |-> id, status |-> 200,
                         body |-> <<metadata[idx].downloads, metadata[idx].createdAt,
                                    metadata[idx].createdAt + FILE_EXPIRY_MS>>]
    /\ UNCHANGED <<metadataFile, uploadsDir, now, ticks, req, sending, alive, served>>

\* ------------------------------------------------------ Expiry Sweeper
\* >= where the code has >: a record of age exactly TTL counts as expired
ExpiredAtTtl(file, t) == t - file.createdAt >= FILE_EXPIRY_MS

Expired(file, t) == t - file.createdAt > FILE_EXPIRY_MS

\* metadata.files.forEach(...): validFiles and the directory after the
\* unlinkSync calls; threw is set when an unlinkSync throws (okUnlink FALSE),
\* which leaves the loop at once
RECURSIVE ForEachFile(_, _, _, _, _, _)
ForEachFile(files, i, validFiles, dir, t, okUnlink) ==
    IF i > Len(files)
    THEN [validFiles |-> validFiles, dir |-> dir, threw |-> FALSE]
    ELSE IF Expired(files[i], t)
    THEN IF dir[files[i].filename[1]].exists
         THEN IF okUnlink
              THEN ForEachFile(files, i + 1, validFiles,
                               [dir EXCEPT ![files[i].filename[1]] = NoFile], t, okUnlink)
              ELSE [validFiles |-> validFiles, dir |-> dir, threw |-> TRUE]
         ELSE ForEachFile(files, i + 1, validFiles, dir, t, okUnlink)
    ELSE ForEachFile(files, i + 1, Append(validFiles, files[i]), dir, t, okUnlink)

\* a sweep that rewrites the document on every run
AlwaysSaves(validFiles, files) == TRUE

\* a sweep that never rewrites the document
NeverSaves(validFiles, files) == FALSE

\* validFiles.length !== metadata.files.length
NeedsSave(validFiles, files) == Len(validFiles) # Len(files)

\* the interval callback; nothing catches a throw of unlinkSync or
\* saveMetadata, so it ends the process
cleanupExpiredFiles(okUnlink, okSave) ==
    /\ alive
    /\ LET metadata == loadMetadata
           run == ForEachFile(metadata, 1, << >>, uploadsDir, now, okUnlink)
           saves == NeedsSave(run.validFiles, metadata)
       IN  /\ uploadsDir' = run.dir
           /\ (okUnlink \/ run.threw)
           /\ (okSave \/ (~run.threw /\ saves))
           /\ IF run.threw
              THEN /\ alive' = FALSE
                   /\ UNCHANGED metadataFile
              ELSE IF saves
              THEN /\ metadataFile' = saveMetadata(run.validFiles, okSave)
                   /\ alive' = okSave
              ELSE UNCHANGED <<metadataFile, alive>>
           /\ last' = [op |-> "sweep", id |-> 0,
                       status |-> IF alive' THEN 200 ELSE 500, body |-> << >>]
    /\ UNCHANGED <<now, ticks, req, sending, served>>

\* ---------------------------------------------------------- environment
\* time passes
Tick(d) ==
    /\ alive
    /\ ticks < MaxTicks
    /\ now' = now + d
    /\ ticks' = ticks + 1
    /\ last' = NoOp
    /\ UNCHANGED <<metadataFile, uploadsDir, req, sending, alive, served>>

\* a stored file is deleted out-of-band
ExternalUnlink(id) ==
    /\ alive
    /\ uploadsDir[id].exists
    /\ uploadsDir' = [uploadsDir EXCEPT ![id] = NoFile]
    /\ last' = NoOp
    /\ UNCHANGED <<metadataFile, now, ticks, req, sending, alive, served>>

Kinds == {"file", "nofile", "noboundary"}
Deltas == {1, FILE_EXPIRY_MS}

\* the payload of the uploads of the whole-service specification
SamplePayload == <<"a">>

\* the longest request body
MaxLen == Len(Multipart("fa", << >>)) + MaxBody

\* chunk borders of a client that sends the part headers and the rest apart
CoarseCuts(rest) ==
    {Len(rest)} \cup
    (IF IndexOf(rest, HeaderEnd) # -1 THEN {IndexOf(rest, HeaderEnd) + Len(HeaderEnd)} ELSE {})

\* The whole service: several clients, the clock, the sweeper; request bodies
\* arrive in one piece or cut after the part headers.
Next ==
    \/ \E u \in Slots, kind \in Kinds : UploadStart(u, kind, SamplePayload)
    \/ \E u \in Slots, ok \in BOOLEAN : \E k \in CoarseCuts(req[u].rest) : ReqData(u, k, ok)
    \/ \E u \in Slots : ReqEnd(u)
    \/ \E u \in Slots : ReqError(u)
    \/ \E u \in Slots : FsOpen(u)
    \/ \E u \in Slots : FsWrite(u)
    \/ \E u \in Slots : FsClose(u)
    \/ \E id \in Ids, ok \in BOOLEAN : Download(id, ok)
    \/ \E id \in Ids : SendFile(id)
    \/ \E id \in Ids : Info(id)
    \/ \E okUnlink \in BOOLEAN, okSave \in BOOLEAN : cleanupExpiredFiles(okUnlink, okSave)
    \/ \E d \in Deltas : Tick(d)
    \/ \E id \in Ids : ExternalUnlink(id)

Spec == Init /\ [][Next]_vars

\* One upload delivered in every possible chunking, its write stream, and
\* downloads of the stored file.
NextIngest ==
    \/ \E kind \in Kinds, body \in Bodies : UploadStart(1, kind, body)
    \/ \E k \in 1 .. MaxLen, ok \in BOOLEAN : ReqData(1, k, ok)
    \/ ReqEnd(1)
    \/ ReqError(1)
    \/ FsOpen(1)
    \/ FsWrite(1)
    \/ FsClose(1)
    \/ \E ok \in BOOLEAN : Download(1, ok)
    \/ SendFile(1)

SpecIngest == InitFresh /\ [][NextIngest]_vars

\* The service while no fs call fails and nothing else touches uploads/:
\* clients upload, download and describe, time passes, and the interval timer
\* keeps firing for as long as the process lives.
sweepTimer == cleanupExpiredFiles(TRUE, TRUE)

NextPurge ==
    \/ \E u \in Slots : UploadStart(u, "file", SamplePayload)
    \/ \E u \in Slots : \E k \in CoarseCuts(req[u].rest) : ReqData(u, k, TRUE)
    \/ \E u \in Slots : ReqEnd(u)
    \/ \E u \in Slots : FsOpen(u)
    \/ \E u \in Slots : FsWrite(u)
    \/ \E u \in Slots : FsClose(u)
    \/ \E id \in Ids : Download(id, TRUE)
    \/ \E id \in Ids : SendFile(id)
    \/ \E id \in Ids : Info(id)
    \/ sweepTimer
    \/ \E d \in Deltas : Tick(d)

SpecPurge == Init /\ [][NextPurge]_vars /\ WF_vars(sweepTimer)

\* ------------------------------------------------------------ vocabulary
\* the three parsing states of one upload
AwaitingHeaders(u) == req[u].st # "idle" /\ req[u].st # "rejected" /\ ~req[u].fileStart
StreamingBody(u) == req[u].fileStart /\ req[u].writeStream
Terminated(u) == req[u].fileStart /\ ~req[u].writeStream

\* the request body the client of request u sends, and how much has arrived
Full(u) == Multipart("fa", req[u].body)
Delivered(u) == Len(Full(u)) - Len(req[u].rest)
MarkerStart(u) == IndexOf(Full(u), Marker)

\* every byte handed to request u's write stream so far
Written(u) == (IF req[u].ws.opened THEN uploadsDir[u].data ELSE << >>) \o req[u].ws.pending

Answered(u, status) ==
    \E i \in 1 .. Len(req[u].responses) : req[u].responses[i].status = status

RecordOf(files, id) == files[FindIndex(files, id)]

\* --------------------------------------------------------------- claims

\* the chunk that ended the header phase held the whole part-header block
HeadersComplete(u) == req[u].fileStart /\ IndexOf(req[u].headerBuffer, HeaderEnd) # -1

\* C1: in every chunking in which the closing marker arrives while the engine
\* is in STREAMING_BODY, also one that splits the marker over two chunks, the
\* marker is detected once it has arrived: only the bytes before it went to
\* the blob, the write target was ended, the engine is TERMINATED and the
\* request was answered with the success response.
C1_MarkerDetectedInEveryChunking ==
    \A u \in Slots :
        (/\ req[u].sent = "file"
         /\ HeadersComplete(u)
         /\ Len(req[u].headerBuffer) <= MarkerStart(u)
         /\ Delivered(u) >= MarkerStart(u) + Len(Marker))
        => (/\ Terminated(u)
            /\ req[u].ws.ended
            /\ Written(u) = SubSeq(Full(u), MarkerStart(u) - Len(Written(u)) + 1, MarkerStart(u))
            /\ Len(req[u].responses) = 1
            /\ Answered(u, 200))

\* C2: round trip: after a successful, registered upload of a non-empty
\* payload B whose part headers arrived in one chunk and whose write stream
\* is closed, the stored file holds exactly B, and a download that reads it
\* then serves exactly B.
C2_RoundTrip ==
    \A u \in Slots :
        (/\ req[u].sent = "file" /\ Len(req[u].body) > 0
         /\ HeadersComplete(u)
         /\ Answered(u, 200) /\ req[u].registered /\ req[u].ws.closed)
        => (/\ uploadsDir[u].exists => uploadsDir[u].data = req[u].body
            /\ (last.op = "sendFile" /\ last.id = u /\ last.status = 200)
                   => last.body = req[u].body)

\* C3: no download increment is lost: the stored downloads of a record is the
\* number of downloads of its id that were answered with the blob, however
\* the requests and their response streams interleave.
C3_NoLostDownload ==
    \A i \in 1 .. Len(metadataFile) :
        metadataFile[i].downloads = served[metadataFile[i].id]

\* two downloads of the same id were answered while the response stream of
\* the first was still in flight; one stream has completed since, and the
\* record counts both
C3_Witness ==
    /\ last.op = "sendFile" /\ last.status = 200
    /\ sending[last.id] = 1
    /\ served[last.id] = 2
    /\ last.id \in IdsOf(metadataFile)
    /\ RecordOf(metadataFile, last.id).downloads = 2

\* C4: a sweep that runs to completion at time now keeps exactly the records
\* with now - createdAt <= TTL, unchanged and in their order, removes the
\* others, unlinks the files of the removed records and no other file.
KeptAtNow(file) == now - file.createdAt <= FILE_EXPIRY_MS
C4_SweepRemovesExactlyTheExpired ==
    [][(last'.op = "sweep" /\ alive')
         => /\ metadataFile' = SelectSeq(metadataFile, KeptAtNow)
            /\ \A id \in Ids :
                 uploadsDir'[id] =
                    IF \E i \in 1 .. Len(metadataFile) :
                          metadataFile[i].id = id /\ ~KeptAtNow(metadataFile[i])
                    THEN NoFile ELSE uploadsDir[id]]_vars

\* a sweep has removed the record of age TTL + 1 and its file, and kept the
\* record of age exactly TTL and its file
C4_Witness ==
    /\ last.op = "sweep" /\ alive
    /\ 0 \notin IdsOf(metadataFile) /\ ~uploadsDir[0].exists
    /\ now = FILE_EXPIRY_MS + 1
    /\ 1 \in IdsOf(metadataFile)
    /\ now - RecordOf(metadataFile, 1).createdAt = FILE_EXPIRY_MS
    /\ uploadsDir[1].exists

\* C5: whenever the Metadata Store holds the record of an upload, that
\* upload's blob is on disk and its write stream has closed (every byte is
\* written).
C5_RegisteredOnlyAfterWritten ==
    \A u \in Slots :
        u \in IdsOf(metadataFile) => (uploadsDir[u].exists /\ req[u].ws.closed)

\* C6: every load-mutate-save cycle is atomic with respect to the others.
\* No step drops a record except a sweep that finds it expired or a download
\* that finds its file missing; no step adds a record except the registration
\* of an upload that had none before (so a removed record never comes back);
\* and a record that stays keeps all its fields, but for downloads + 1 in a
\* download of its id answered with the blob.
C6_Dropped(file) ==
    \/ last'.op = "sweep" /\ now - file.createdAt > FILE_EXPIRY_MS
    \/ /\ last'.op = "download" /\ last'.id = file.id /\ last'.status = 404
       /\ ~uploadsDir[file.id].exists
C6_Kept(file, after) ==
    \/ after = file
    \/ /\ last'.op = "download" /\ last'.id = file.id /\ last'.status = 200
       /\ after = [file EXCEPT !.downloads = @ + 1]
C7_SelfHealOnFetch ==
    [][\A id \in Ids :
         (/\ last'.op = "download" /\ last'.id = id
          /\ id \in IdsOf(metadataFile)
          /\ ~uploadsDir[id].exists)
         => /\ last'.status \in {404, 500}
            /\ sending' = sending /\ served' = served
            /\ last'.status = 500 => metadataFile' = metadataFile
            /\ last'.status = 404 =>
                  /\ id \notin IdsOf(metadataFile')
                  /\ Len(metadataFile') = Len(metadataFile) - 1
                  /\ \A i \in 1 .. Len(metadataFile') :
                        metadataFile'[i] =
                           metadataFile[IF i < FindIndex(metadataFile, id) THEN i ELSE i + 1]]_vars

\* the older file was downloaded, then deleted out-of-band before any time
\* passed; the next download of it was answered 404 and its record is gone,
\* the record stored after it is still there
C7_Witness ==
    /\ last = [op |-> "download", id |-> 0, status |-> 404, body |-> << >>]
    /\ served[0] > 0 /\ ticks = 0
    /\ ~uploadsDir[0].exists
    /\ IdsOf(metadataFile) = {1}

\* C8: a describe of an id whose file is missing answers 404, and the store
\* holds no record of that id afterwards.
C8_SelfHealOnDescribe ==
    \A id \in Ids :
        (last.op = "info" /\ last.id = id /\ ~uploadsDir[id].exists)
        => (last.status = 404 /\ id \notin IdsOf(metadataFile))

\* C9: an upload is registered only if it reached TERMINATED with a payload
\* of at least one byte; once the body of an upload without a file part, or
\* with a zero-byte one, has been consumed, it is answered 400 and nothing is
\* registered for it.
C9_NoRecordWithoutPayload ==
    \A u \in Slots :
        /\ (req[u].registered \/ u \in IdsOf(metadataFile))
              => (Terminated(u) /\ Len(req[u].body) > 0)
        /\ (/\ req[u].st = "ended"
            /\ (req[u].sent = "nofile" \/ (req[u].sent = "file" /\ req[u].body = << >>)))
              => (/\ Answered(u, 400) /\ ~Answered(u, 200)
                  /\ ~req[u].registered /\ u \notin IdsOf(metadataFile))

\* C10: once the request stream of a well-formed upload has ended (its whole
\* body was consumed), the request has been answered exactly once.
C10_AnsweredWhenStreamIsOver ==
    \A u \in Slots :
        (req[u].st = "ended" /\ req[u].sent = "file" /\ Len(req[u].body) > 0)
        => Len(req[u].responses) = 1

\* C11: an ingestion that ended without reaching TERMINATED (the request
\* errored, or ended before the closing marker was seen) has its write stream
\* ended, has no record registered for its id, and once the stream is closed
\* its partially written file is no longer in the repository.  (Stated for
\* the ingestions that were still awaiting the part headers or had received
\* them in one chunk.)
C11_AbandonedIngestionCleanedUp ==
    \A u \in Slots :
        (/\ req[u].st \in {"ended", "errored"} /\ ~Terminated(u)
         /\ (~req[u].fileStart \/ HeadersComplete(u)))
        => (/\ req[u].ws.created => req[u].ws.ended
            /\ ~req[u].registered /\ u \notin IdsOf(metadataFile)
            /\ (req[u].ws.closed \/ ~req[u].ws.created) => ~uploadsDir[u].exists)

\* C12: an upload whose closing marker was detected is answered exactly the
\* success response (200, its id, the file name the client sent, the link
\* /f/{id}), whether its registration was saved or saveMetadata threw: the
\* response of the failed save is the response of the successful one.
C12_SuccessAnsweredWhenSaveFails ==
    \A u \in Slots :
        Terminated(u)
        => req[u].responses =
              <<[status |-> 200, id |-> u, filename |-> "a.txt", link |-> <<"/f/", u>>]>>

\* the save of an upload's registration failed: the store has no record of
\* it, its file is written and closed, and the client holds the success
\* response
C12_Witness ==
    \E u \in Slots :
        /\ Terminated(u) /\ ~req[u].registered /\ u \notin IdsOf(metadataFile)
        /\ req[u].ws.closed /\ uploadsDir[u].exists /\ uploadsDir[u].data # << >>
        /\ Answered(u, 200)

\* C13: the id of every upload that was answered success is retrievable: a
\* download of it, made while no time has passed since the upload and while
\* its completely written file is in the repository, is answered with the
\* blob, also when the save of the registration had failed.
C13_AnsweredIdIsRetrievable ==
    \A u \in Slots :
        (/\ req[u].sent = "file" /\ HeadersComplete(u)
         /\ Answered(u, 200) /\ ~req[u].registered
         /\ req[u].ws.closed /\ uploadsDir[u].exists
         /\ ticks = 0
         /\ last.op = "download" /\ last.id = u)
        => last.status = 200

\* C14: a sweep never ends the process: after every run of the sweep, also
\* one in which unlinkSync or the save of the store failed, the process is
\* alive (it goes on serving requests and running the next sweep).
C14_SweepFailureSurvived == last.op = "sweep" => alive

\* C15: a sweep that finds no expired record writes nothing and deletes
\* nothing: the store and the repository are unchanged and no save was
\* attempted (so none could fail); the same holds for a sweep that runs right
\* after a sweep that completed, with no other step in between.
C15_NoneExpired ==
    \A i \in 1 .. Len(metadataFile) : now - metadataFile[i].createdAt <= FILE_EXPIRY_MS
C15_IdempotentSweep ==
    [][(last'.op = "sweep" /\ (C15_NoneExpired \/ (last.op = "sweep" /\ alive)))
         => /\ metadataFile' = metadataFile
            /\ uploadsDir' = uploadsDir
            /\ alive']_vars

\* a sweep has run over a store of two records before any time passed: both
\* records and both files are still there
C15_Witness ==
    /\ last.op = "sweep" /\ alive
    /\ ticks = 0
    /\ IdsOf(metadataFile) = {0, 1}
    /\ uploadsDir[0].exists /\ uploadsDir[1].exists

\* C16: while no fs call fails and the sweep timer is weakly fair, every
\* stored record older than the TTL is eventually removed from the store with
\* its file gone from the repository; and from some point on its id is never
\* in the store again and every describe or download of it is answered 404.
C16_Overdue(id) ==
    /\ id \in IdsOf(metadataFile)
    /\ now - RecordOf(metadataFile, id).createdAt > FILE_EXPIRY_MS
C16_Purged(id) == id \notin IdsOf(metadataFile) /\ ~uploadsDir[id].exists
C16_NotFound(id) ==
    /\ id \notin IdsOf(metadataFile)
    /\ (last.id = id /\ last.op \in {"info", "download"}) => last.status = 404
C16_EventualPurge ==
    \A id \in Ids :
        /\ C16_Overdue(id) ~> C16_Purged(id)
        /\ [](C16_Overdue(id) => <>[]C16_NotFound(id))

\* the file of the earlier run was downloaded, outlived the TTL and was swept
\* with its record; a describe of its id has been answered 404 since
C16_Witness ==
    /\ last = [op |-> "info", id |-> 0, status |-> 404, body |-> << >>]
    /\ served[0] > 0
    /\ now > FILE_EXPIRY_MS
    /\ 0 \notin IdsOf(metadataFile) /\ ~uploadsDir[0].exists

\* C17: an upload request whose Content-Type has no boundary parameter is
\* answered 400 in the step that receives it, and that step leaves the store
\* and the repository unchanged; no write stream is ever created for it, no
\* file of its id appears, and no record of its id is ever registered.
C17_NothingOpened(u) ==
    /\ req[u].responses = <<[status |-> 400, id |-> 0, filename |-> NoName, link |-> << >>]>>
    /\ ~req[u].ws.created /\ ~req[u].writeStream
    /\ ~uploadsDir[u].exists
    /\ ~req[u].registered /\ u \notin IdsOf(metadataFile)
C17_NoBoundaryRejected ==
    /\ [](\A u \in Slots : req[u].sent = "noboundary" => C17_NothingOpened(u))
    /\ [][\A u \in Slots :
            (req[u].sent # "noboundary" /\ req'[u].sent = "noboundary")
            => (metadataFile' = metadataFile /\ uploadsDir' = uploadsDir)]_vars

\* a request without boundary was rejected; the record and the file of the
\* earlier run are as they were
C17_Witness ==
    \E u \in Slots :
        /\ req[u].st = "rejected" /\ Answered(u, 400)
        /\ metadataFile = <<OldRecord>> /\ uploadsDir[0] = OldFile
        /\ ~uploadsDir[u].exists

\* C18: the write stream of an upload is created only once the empty line
\* that ends the part headers is in the header buffer, and the bytes handed
\* to the stream are bytes of the request body that follow that empty line:
\* they are a piece of the body that starts right after it.
C18_AfterTerminator(u) == IndexOf(Full(u), HeaderEnd) + Len(HeaderEnd)
C18_OnlyBodyBytesForwarded ==
    \A u \in Slots :
        (req[u].sent = "file" /\ req[u].ws.created)
        => (/\ IndexOf(req[u].headerBuffer, HeaderEnd) # -1
            /\ Written(u) = SubSeq(Full(u), C18_AfterTerminator(u) + 1,
                                   C18_AfterTerminator(u) + Len(Written(u))))

\* C19: TERMINATED is absorbing.  Once the closing marker of a request was
\* detected, no later step of the request (further chunks, 'end') hands a byte
\* to its write stream, registers a record or sends a response: the request
\* stays TERMINATED, its stream stays ended with the same bytes, its one
\* response stays its only response and the store gains no record.  Every
\* request is answered at most once and has at most one record.
C19_RecordsOf(files, id) == Cardinality({i \in 1 .. Len(files) : files[i].id = id})
C19_TerminatedIsAbsorbing ==
    /\ [](\A u \in Slots :
            /\ Len(req[u].responses) <= 1
            /\ C19_RecordsOf(metadataFile, u) <= 1)
    /\ [][\A u \in Slots :
            Terminated(u)
            => (/\ Terminated(u)'
                /\ req'[u].ws.ended
                /\ Written(u)' = Written(u)
                /\ req'[u].responses = req[u].responses
                /\ req'[u].registered = req[u].registered
                /\ req'[u].completeSize = req[u].completeSize
                /\ C19_RecordsOf(metadataFile', u) <= C19_RecordsOf(metadataFile, u))]_vars

\* the request stream ended after chunks that arrived behind the one that
\* held the closing marker: the upload is registered once and answered once
C19_Witness ==
    \E u \in Slots :
        /\ Terminated(u) /\ req[u].st = "ended"
        /\ req[u].receivedBytes > req[u].completeSize
        /\ req[u].registered /\ C19_RecordsOf(metadataFile, u) = 1
        /\ Len(req[u].responses) = 1

\* C20: the downloads of a stored record is a natural number; a record
\* enters the store with downloads = 0; while a record stays in the store its
\* downloads never decreases and changes only by + 1, in a download of its
\* id that is answered with the blob; a describe or a sweep changes the
\* downloads of no record that stays.
C20_DownloadsMonotonic ==
    /\ [](\A i \in 1 .. Len(metadataFile) : metadataFile[i].downloads \in Nat)
    /\ [][/\ \A id \in IdsOf(metadataFile') \ IdsOf(metadataFile) :
               RecordOf(metadataFile', id).downloads = 0
          /\ \A id \in IdsOf(metadataFile') \cap IdsOf(metadataFile) :
               LET before == RecordOf(metadataFile, id).downloads
                   after == RecordOf(metadataFile', id).downloads
               IN  /\ after >= before
                   /\ after # before
                        => /\ after = before + 1
                           /\ last' = [op |-> "download", id |-> id,
                                       status |-> 200, body |-> << >>]
                   /\ last'.op \in {"info", "sweep"} => after = before]_vars

\* a sweep removed the expired record of the earlier run and kept the record
\* of the upload, whose two downloads are still counted; a describe then
\* reported them
C20_Witness ==
    /\ last.op = "info" /\ last.id = 1 /\ last.status = 200
    /\ last.body[1] = 2
    /\ 0 \notin IdsOf(metadataFile) /\ served[0] > 0 /\ ~uploadsDir[0].exists
    /\ now - RecordOf(metadataFile, 1).createdAt <= FILE_EXPIRY_MS
    /\ now > FILE_EXPIRY_MS

====
